---- MODULE Spec2Model ----
(***************************************************************************)
(* Model of hkoge/cesiumtoolkit:                                           *)
(*   - cesiumtoolkit/trksplitter.py   splitter.split, TRKSplitter          *)
(*   - ishiharautils/lsdconverter.py  LSDConverter                         *)
(*   - ishiharautils/lncorrection.py  LWTCorrector.run / run_iterative     *)
(* Each operation has its own specification (SpecSplit, SpecConv,          *)
(* SpecMerge, SpecLevel, SpecDriver); the variables of the other           *)
(* operations stay at their idle values.                                   *)
(*                                                                         *)
(* Numbers are fixed point integers.  Coordinates are millidegrees,        *)
(* distances whole metres, the magnetic values hundredths of a nT unless   *)
(* a definition says otherwise.  Text formatting (%.1f, %.2f, int()) is    *)
(* modelled as the rounding or truncation it performs.                     *)
(***************************************************************************)
EXTENDS Integers, Sequences, FiniteSets, TLC

VARIABLES
    \* ---- splitter.split ----
    pc,            \* position in split: "start","rdp","loop","done","empty"
    raw,           \* rows of the input .trk file as read by read_csv
    min_length,    \* self.min_distance_km * 1000.0, in metres
    df,            \* usable rows (after dropna)
    mask,          \* mask returned by rdp(..., return_mask=True)
    boundaries,    \* np.append(idx, len(df)), 0-based row positions
    seg_i,         \* position of the for loop in zip(boundaries[:-1], boundaries[1:])
    track_id,
    track_vec,
    category_vec,
    main_dir,      \* files of main_tracks:    track id -> rows written
    skip_dir,      \* files of skipped_tracks: track id -> rows written
    \* ---- LSDConverter.convert_lla_to_lsd ----
    cpc,           \* position in convert_lla_to_lsd: "start","filtered","parsed","done"
    lla,           \* rows of the .lla file, text fields
    line_number,
    cdf,           \* the data frame df of convert_lla_to_lsd
    outcome,       \* which return was taken: "none","skipped","failed","converted"
    lsd_lines,     \* the returned list
    \* ---- LSDConverter.convert_all_lla_to_lsd_and_merge ----
    mpc,           \* position: "start","loop","write","done"
    lla_dir,       \* the *.lla files of lla_dir: file name -> rows
    lla_files,     \* sorted(Path(lla_dir).glob("*.lla"))
    mi,            \* the i of enumerate(lla_files, start=1)
    all_lines,
    mapping,
    output_lsd,    \* the lines written to output_lsd_path
    mapping_csv,   \* the rows written to mapping_csv_path after the header
    \* ---- LWTCorrector.run / run_iterative ----
    lpc,           \* position: "start","grouped","loop","write","done"
    method,        \* "run" or "run_iterative"
    lsd,           \* the records of the merged .lsd file
    lwt,           \* the observations of the .lwt file
    max_iter,
    tol,           \* in 1e-4
    offset_map,    \* (cruise, line) -> mean, a fraction [num, den] in 1e-4
    weight_map,    \* (cruise, line) -> mean, a fraction [num, den] in 1e-5
    iter_i,        \* the i of "for i in range(max_iter)" (iterations begun)
    results,       \* the lines written to output_path
    \* ---- TRKSplitter ----
    dpc,           \* position: "start","loop","returned","raised"
    trk_dir,       \* the *.trk files of input_dir: file name -> rows
    min_distance,  \* splitter_core.min_distance_km * 1000.0, in metres
    trk_files,     \* sorted(input_dir.glob("*.trk"))
    ti,            \* position of the for loop in trk_files
    clock,         \* the second datetime.now() gave when last read
    tree,          \* input_dir/splittedTRK_<tag>: tag -> files of the folder
    base_dir,      \* the base_dir of TRKSplitter
    split_log,     \* what each split call that wrote files wrote, and where
    error          \* the message of the RuntimeError raised, "" if none

splitVars == <<pc, raw, min_length, df, mask, boundaries, seg_i, track_id,
               track_vec, category_vec, main_dir, skip_dir>>

convVars == <<cpc, lla, line_number, cdf, outcome, lsd_lines>>

mergeVars == <<mpc, lla_dir, lla_files, mi, all_lines, mapping, output_lsd,
               mapping_csv>>

levelVars == <<lpc, method, lsd, lwt, max_iter, tol, offset_map, weight_map,
               iter_i, results>>

driverVars == <<dpc, trk_dir, min_distance, trk_files, ti, clock, tree,
                base_dir, split_log, error>>

notSplitVars == <<convVars, mergeVars, levelVars, driverVars>>

notConvVars == <<splitVars, mergeVars, levelVars, driverVars>>

notMergeVars == <<splitVars, convVars, levelVars, driverVars>>

notLevelVars == <<splitVars, convVars, mergeVars, driverVars>>

notDriverVars == <<splitVars, convVars, mergeVars, levelVars>>

vars == <<splitVars, convVars, mergeVars, levelVars, driverVars>>

(***************************************************************************)
(* Bounds                                                                  *)
(***************************************************************************)
MaxRows == 3

MaxFileRows == 3

MaxFiles == 2

MaxLsd == 2

MaxObs == 2

MaxIter == 3

(***************************************************************************)
(* Generic helpers                                                         *)
(***************************************************************************)
Abs(x) == IF x < 0 THEN -x ELSE x

\* s[a:b] of Python for 0-based a <= b <= len(s)
Slice(s, a, b) == [k \in 1..(b - a) |-> s[a + k]]

\* x / unit rounded to the nearest integer, ties to even (what %.Nf does)
RoundDiv(x, unit) ==
    LET q == x \div unit
        r == x % unit
    IN  IF 2 * r < unit THEN q
        ELSE IF 2 * r > unit THEN q + 1
        ELSE IF q % 2 = 0 THEN q ELSE q + 1

(***************************************************************************)
(* Great-circle distance.  The survey points of the model and their        *)
(* pairwise haversine distance on the sphere of radius 6371 km, as the     *)
(* formula of _haversine gives it, in whole metres:                        *)
(*   1: (10.000, 0.000)  2: (10.001, 0.000)                                *)
(*   3: (10.100, 0.000)  4: (10.100, 0.045)      (lon, lat in degrees)     *)
(***************************************************************************)
Coords == << [lon |-> 10000, lat |-> 0],  [lon |-> 10001, lat |-> 0],
             [lon |-> 10100, lat |-> 0],  [lon |-> 10100, lat |-> 45] >>

HaversineTable == << <<    0,   111, 11119, 12193>>,
                     <<  111,     0, 11008, 12092>>,
                     <<11119, 11008,     0,  5004>>,
                     <<12193, 12092,  5004,     0>> >>

CoordIndex(lon, lat) ==
    CHOOSE k \in 1..Len(Coords) : Coords[k].lon = lon /\ Coords[k].lat = lat

\* trksplitter._haversine: metres
_haversine(lon1, lat1, lon2, lat2) ==
    HaversineTable[CoordIndex(lon1, lat1)][CoordIndex(lon2, lat2)]

RECURSIVE SumLegs(_, _)
SumLegs(coords, i) ==
    IF i >= Len(coords) THEN 0
    ELSE _haversine(coords[i].lon, coords[i].lat,
                     coords[i + 1].lon, coords[i + 1].lat)
         + SumLegs(coords, i + 1)

\* trksplitter._segment_length
_segment_length(coords) ==
    IF Len(coords) < 2 THEN 0 ELSE SumLegs(coords, 1)

(***************************************************************************)
(* splitter.split                                                          *)
(***************************************************************************)
\* a missing value in a numeric column (read_csv gives NaN)
NaN == -999999

\* The rows a .trk file can hold at line i: a point of Coords with a time
\* (tenths of a second) and a magnetic value (hundredths), or a row with a
\* missing value, which dropna removes.
RawRowsAt(i) ==
    { [unixtime |-> 100 * (i - 1) + 5, lon |-> Coords[k].lon,
       lat |-> Coords[k].lat, mag |-> 10000 + 100 * (i - 1) + 4 * k]
        : k \in 1..Len(Coords) }
    \cup
    { [unixtime |-> 100 * (i - 1) + 5, lon |-> Coords[1].lon,
       lat |-> Coords[1].lat, mag |-> NaN] }

RawTracks ==
    UNION { { r \in [1..n -> UNION {RawRowsAt(i) : i \in 1..n}] :
                \A i \in 1..n : r[i] \in RawRowsAt(i) } : n \in 0..MaxRows }

\* self.min_distance_km * 1_000.0 for the thresholds of the model
MinLengths == {0, 111, 5000}

\* DataFrame.dropna
dropna(rows) == SelectSeq(rows, LAMBDA r : r.mag # NaN)

\* np.flatnonzero(mask): the 0-based positions of the True entries, ascending
RECURSIVE flatnonzero_from(_, _)
flatnonzero_from(m, i) ==
    IF i > Len(m) THEN <<>>
    ELSE (IF m[i] THEN <<i - 1>> ELSE <<>>) \o flatnonzero_from(m, i + 1)

flatnonzero(m) == flatnonzero_from(m, 1)

\* lines 72-77 with the final append left out
BoundariesNoAppend(m, n) ==
    LET idx0 == flatnonzero(m)
        idx1 == IF idx0[1] # 0 THEN <<0>> \o idx0 ELSE idx0
    IN  IF idx1[Len(idx1)] # n - 1 THEN Append(idx1, n - 1) ELSE idx1

\* lines 72-77: idx with 0 and len(df)-1 forced in, then len(df) appended
Boundaries(m, n) ==
    LET idx0 == flatnonzero(m)
        idx1 == IF idx0[1] # 0 THEN <<0>> \o idx0 ELSE idx0
        idx2 == IF idx1[Len(idx1)] # n - 1 THEN Append(idx1, n - 1) ELSE idx1
    IN  Append(idx2, n)

\* line 95 with a strict comparison
IsMainStrict(seg_len, minlen) == seg_len > minlen

\* line 95: is_main = seg_len >= self.min_distance_km * 1_000.0
IsMain(seg_len, minlen) == seg_len >= minlen

\* lines 100-103: f"{int(t):d} {lon:.7f} {lat:.7f} {mag:.1f}"
\* (time in seconds, lon/lat in 1e-7 degrees, mag in tenths)
FormatTrkRow(r) ==
    [t |-> r.unixtime \div 10, lon |-> r.lon * 10000, lat |-> r.lat * 10000,
     mag |-> RoundDiv(r.mag, 10)]

FormatTrk(seg) == [k \in 1..Len(seg) |-> FormatTrkRow(seg[k])]

NoFiles == [k \in {} |-> <<>>]

\* the components that a specification does not run
IdleConv ==
    /\ cpc = "idle"
    /\ lla = <<>>
    /\ line_number = 0
    /\ cdf = <<>>
    /\ outcome = "none"
    /\ lsd_lines = <<>>

IdleMerge ==
    /\ mpc = "idle"
    /\ lla_dir = NoFiles
    /\ lla_files = <<>>
    /\ mi = 0
    /\ all_lines = <<>>
    /\ mapping = <<>>
    /\ output_lsd = <<>>
    /\ mapping_csv = <<>>

IdleLevel ==
    /\ lpc = "idle"
    /\ method = "none"
    /\ lsd = <<>>
    /\ lwt = <<>>
    /\ max_iter = 0
    /\ tol = 0
    /\ offset_map = NoFiles
    /\ weight_map = NoFiles
    /\ iter_i = 0
    /\ results = <<>>

\* base_dir = None
None == [kind |-> "None", tag |-> 0]

IdleDriver ==
    /\ dpc = "idle"
    /\ trk_dir = NoFiles
    /\ min_distance = 0
    /\ trk_files = <<>>
    /\ ti = 0
    /\ clock = 0
    /\ tree = NoFiles
    /\ base_dir = None
    /\ split_log = <<>>
    /\ error = ""

IdleSplit ==
    /\ pc = "idle"
    /\ raw = <<>>
    /\ min_length = 0
    /\ df = <<>>
    /\ mask = <<>>
    /\ boundaries = <<>>
    /\ seg_i = 0
    /\ track_id = 0
    /\ track_vec = <<>>
    /\ category_vec = <<>>
    /\ main_dir = NoFiles
    /\ skip_dir = NoFiles

InitSplit ==
    /\ pc = "start"
    /\ raw \in RawTracks
    /\ min_length \in MinLengths
    /\ df = <<>>
    /\ mask = <<>>
    /\ boundaries = <<>>
    /\ seg_i = 0
    /\ track_id = 0
    /\ track_vec = <<>>
    /\ category_vec = <<>>
    /\ main_dir = NoFiles
    /\ skip_dir = NoFiles
    /\ IdleConv
    /\ IdleMerge
    /\ IdleLevel
    /\ IdleDriver

\* lines 52-66: read, dropna, the empty-input early return
ReadTrk ==
    /\ pc = "start"
    /\ df' = dropna(raw)
    /\ pc' = IF df' = <<>> THEN "empty" ELSE "rdp"
    /\ UNCHANGED <<raw, min_length, mask, boundaries, seg_i, track_id,
                   track_vec, category_vec, main_dir, skip_dir>>
    /\ UNCHANGED notSplitVars

\* lines 68-89: the RDP mask (any mask the library can return has at least one
\* retained vertex), the boundaries, the output directories, the loop state
RdpSplit ==
    /\ pc = "rdp"
    /\ \E m \in [1..Len(df) -> BOOLEAN] :
          /\ \E i \in 1..Len(df) : m[i]
          /\ mask' = m
          /\ boundaries' = Boundaries(m, Len(df))
    /\ seg_i' = 1
    /\ track_id' = 0
    /\ track_vec' = [i \in 1..Len(df) |-> -1]
    /\ category_vec' = [i \in 1..Len(df) |-> "none"]
    /\ main_dir' = NoFiles
    /\ skip_dir' = NoFiles
    /\ pc' = "loop"
    /\ UNCHANGED <<raw, min_length, df>>
    /\ UNCHANGED notSplitVars

\* lines 92-110: one iteration of the for loop
SaveSegment ==
    /\ pc = "loop"
    /\ seg_i < Len(boundaries)
    /\ LET s == boundaries[seg_i]
           e == boundaries[seg_i + 1]
           seg == Slice(df, s, e)
           seg_len == _segment_length(seg)
           is_main == IsMain(seg_len, min_length)
           category == IF is_main THEN "main" ELSE "skipped"
           file == FormatTrk(seg)
       IN  /\ main_dir' = IF is_main
                          THEN [k \in DOMAIN main_dir \cup {track_id} |->
                                  IF k = track_id THEN file ELSE main_dir[k]]
                          ELSE main_dir
           /\ skip_dir' = IF is_main
                          THEN skip_dir
                          ELSE [k \in DOMAIN skip_dir \cup {track_id} |->
                                  IF k = track_id THEN file ELSE skip_dir[k]]
           /\ track_vec' = [i \in 1..Len(df) |->
                              IF s < i /\ i <= e THEN track_id ELSE track_vec[i]]
           /\ category_vec' = [i \in 1..Len(df) |->
                              IF s < i /\ i <= e THEN category ELSE category_vec[i]]
    /\ track_id' = track_id + 1
    /\ seg_i' = seg_i + 1
    /\ UNCHANGED <<pc, raw, min_length, df, mask, boundaries>>
    /\ UNCHANGED notSplitVars

\* lines 112-116: the loop is exhausted, the plot is saved, base_dir returned
FinishSplit ==
    /\ pc = "loop"
    /\ seg_i >= Len(boundaries)
    /\ pc' = "done"
    /\ UNCHANGED <<raw, min_length, df, mask, boundaries, seg_i, track_id,
                   track_vec, category_vec, main_dir, skip_dir>>
    /\ UNCHANGED notSplitVars

NextSplit == ReadTrk \/ RdpSplit \/ SaveSegment \/ FinishSplit

SpecSplit == InitSplit /\ [][NextSplit]_vars

(***************************************************************************)
(* Claims about splitter.split                                             *)
(***************************************************************************)
\* the rows of df, from row i on, that track_vec assigns to segment k
RECURSIVE RowsOfSegment(_, _)
RowsOfSegment(k, i) ==
    IF i > Len(df) THEN <<>>
    ELSE (IF track_vec[i] = k THEN <<df[i]>> ELSE <<>>) \o RowsOfSegment(k, i + 1)

\* the file written for segment k, in whichever directory holds it
SegmentFile(k) == IF k \in DOMAIN main_dir THEN main_dir[k] ELSE skip_dir[k]

RECURSIVE ConcatFiles(_)
ConcatFiles(k) ==
    IF k >= track_id THEN <<>> ELSE SegmentFile(k) \o ConcatFiles(k + 1)

\* C1: when split has finished on a non-empty track, the written segments
\* partition the usable rows: every row has exactly one segment id, the ids
\* are 0,1,2,... non-decreasing in row order in steps of at most one (so
\* every segment is a contiguous run), row 0 is in segment 0 and the last row
\* in the last segment, every id names exactly one file, and the files
\* concatenated in id order are the usable rows in their original order.
C1_SegmentsPartitionRows ==
    pc = "done" =>
        LET n == Len(df) IN
        /\ n >= 1
        /\ \A i \in 1..n : track_vec[i] \in 0..(track_id - 1)
        /\ track_vec[1] = 0
        /\ track_vec[n] = track_id - 1
        /\ \A i \in 1..(n - 1) :
              track_vec[i + 1] \in {track_vec[i], track_vec[i] + 1}
        /\ DOMAIN main_dir \cup DOMAIN skip_dir = 0..(track_id - 1)
        /\ DOMAIN main_dir \cap DOMAIN skip_dir = {}
        /\ \A k \in 0..(track_id - 1) :
              SegmentFile(k) = FormatTrk(RowsOfSegment(k, 1))
        /\ ConcatFiles(0) = FormatTrk(df)

\* C1 witness: a finished split of a track with a dropped row, whose two
\* usable rows are both retained by RDP and end up in two segments
C1_Witness ==
    /\ pc = "done"
    /\ Len(raw) > Len(df)
    /\ Len(df) = 2
    /\ track_id = 2
    /\ mask = <<TRUE, TRUE>>

\* the mask in which RDP retains only the first and the last point
OnlyEndsRetained ==
    /\ Len(df) >= 2
    /\ mask = [i \in 1..Len(df) |-> i = 1 \/ i = Len(df)]

\* C2: on a track where RDP retains only the first and the last point, split
\* writes exactly one segment, holding all n rows, whose length is the sum
\* of all n-1 legs and which is main iff that sum is >= min_length.
C2_SingleRunOneSegment ==
    (pc = "done" /\ OnlyEndsRetained) =>
        /\ track_id = 1
        /\ SegmentFile(0) = FormatTrk(df)
        /\ (0 \in DOMAIN main_dir) <=> (_segment_length(df) >= min_length)

\* C3: every segment written so far is in main_tracks iff the summed
\* great-circle length of its own rows is >= min_length, otherwise in
\* skipped_tracks, and its rows carry the matching category.
C3_MainIffLongEnough ==
    pc \in {"loop", "done"} =>
        \A k \in 0..(track_id - 1) :
            LET length_m == _segment_length(RowsOfSegment(k, 1)) IN
            /\ (k \in DOMAIN main_dir) <=> (length_m >= min_length)
            /\ (k \in DOMAIN skip_dir) <=> (length_m < min_length)
            /\ \A i \in 1..Len(df) :
                  track_vec[i] = k =>
                      category_vec[i] = IF length_m >= min_length
                                        THEN "main" ELSE "skipped"

\* C3 witness: a finished split with a segment of two or more rows whose
\* length equals a positive threshold exactly and is main, next to a skipped
\* segment
C3_Witness ==
    /\ pc = "done"
    /\ min_length > 0
    /\ \E k \in DOMAIN main_dir :
          /\ Len(RowsOfSegment(k, 1)) >= 2
          /\ _segment_length(RowsOfSegment(k, 1)) = min_length
    /\ DOMAIN skip_dir # {}

(***************************************************************************)
(* LSDConverter.convert_lla_to_lsd                                         *)
(*                                                                         *)
(* The text fields yyyymmdd and hhmmss are sequences of decimal digits.    *)
(* A numeric text field is the number it parses to, or BadNum when         *)
(* astype() cannot parse it, or NaN when the field is missing.             *)
(***************************************************************************)
\* a text field that astype(int) / astype(float) rejects
BadNum == -888888

\* the rows an .lla file of the model can hold
\* well-formed, 6-character time 12:34:56
RowHMS6 ==
    [track |-> 7, yyyymmdd |-> <<2,0,2,4,0,3,0,1>>, hhmmss |-> <<1,2,3,4,5,6>>,
     lon |-> Coords[1].lon, lat |-> Coords[1].lat, anomaly |-> 1234]

\* well-formed, 4-character time
RowHMS4 ==
    [track |-> 7, yyyymmdd |-> <<2,0,2,4,0,3,0,1>>, hhmmss |-> <<1,2,3,4>>,
     lon |-> Coords[2].lon, lat |-> Coords[2].lat, anomaly |-> -567]

\* well-formed, 5-character time, last day of a common year
RowHMS5 ==
    [track |-> 7, yyyymmdd |-> <<2,0,2,3,1,2,3,1>>, hhmmss |-> <<9,3,0,1,5>>,
     lon |-> Coords[3].lon, lat |-> Coords[3].lat, anomaly |-> 250]

\* hhmmss shorter than 4
RowHMS3 ==
    [track |-> 7, yyyymmdd |-> <<2,0,2,4,0,3,0,1>>, hhmmss |-> <<1,2,3>>,
     lon |-> Coords[4].lon, lat |-> Coords[4].lat, anomaly |-> 100]

\* yyyymmdd of 7 characters
RowYMD7 ==
    [track |-> 7, yyyymmdd |-> <<2,0,2,4,3,0,1>>, hhmmss |-> <<1,2,3,4,5,6>>,
     lon |-> Coords[4].lon, lat |-> Coords[4].lat, anomaly |-> 100]

\* missing anomaly
RowNoAnomaly ==
    [track |-> 7, yyyymmdd |-> <<2,0,2,4,0,3,0,1>>, hhmmss |-> <<1,2,3,4,5,6>>,
     lon |-> Coords[4].lon, lat |-> Coords[4].lat, anomaly |-> NaN]

\* unparsable longitude
RowBadLon ==
    [track |-> 7, yyyymmdd |-> <<2,0,2,4,0,3,0,1>>, hhmmss |-> <<1,2,3,4,5,6>>,
     lon |-> BadNum, lat |-> Coords[4].lat, anomaly |-> 100]

\* well-shaped time that is no time of day (seconds 75)
RowBadTime ==
    [track |-> 7, yyyymmdd |-> <<2,0,2,4,0,3,0,1>>, hhmmss |-> <<1,2,7,5>>,
     lon |-> Coords[4].lon, lat |-> Coords[4].lat, anomaly |-> 100]

LlaRows == {RowHMS6, RowHMS4, RowHMS5, RowHMS3, RowYMD7, RowNoAnomaly,
            RowBadLon, RowBadTime}

LlaFiles == UNION { [1..n -> LlaRows] : n \in 0..MaxFileRows }

\* int() of a string of decimal digits
RECURSIVE DigitsToInt(_)
DigitsToInt(s) ==
    IF s = <<>> THEN 0
    ELSE 10 * DigitsToInt(SubSeq(s, 1, Len(s) - 1)) + s[Len(s)]

\* str() of a natural number
RECURSIVE IntToDigits(_)
IntToDigits(n) ==
    IF n < 10 THEN <<n>> ELSE Append(IntToDigits(n \div 10), n % 10)

\* padding to 6 characters with zeros on the right
RightPad6(s) ==
    IF Len(s) >= 6 THEN s ELSE s \o [k \in 1..(6 - Len(s)) |-> 0]

\* line 46: str.zfill(6) pads with zeros on the left
zfill6(s) ==
    IF Len(s) >= 6 THEN s ELSE [k \in 1..(6 - Len(s)) |-> 0] \o s

\* Python's str[a:b] on a digit string
StrSlice(s, a, b) ==
    LET hi == IF b < Len(s) THEN b ELSE Len(s)
    IN  IF a >= hi THEN <<>> ELSE SubSeq(s, a + 1, hi)

IsLeap(y) == (y % 4 = 0 /\ y % 100 # 0) \/ y % 400 = 0

DaysInMonth(y, m) ==
    IF m = 2 THEN (IF IsLeap(y) THEN 29 ELSE 28)
    ELSE IF m \in {4, 6, 9, 11} THEN 30 ELSE 31

\* line 51: pd.to_datetime raises unless the six columns are a date and time
ValidDateTime(r) ==
    /\ r.month \in 1..12
    /\ r.day >= 1 /\ r.day <= DaysInMonth(r.year, r.month)
    /\ r.hour \in 0..23
    /\ r.minute \in 0..59
    /\ r.second \in 0..59

\* line 52: Series.dt.dayofyear
RECURSIVE DaysBefore(_, _)
DaysBefore(y, m) ==
    IF m <= 1 THEN 0 ELSE DaysInMonth(y, m - 1) + DaysBefore(y, m - 1)

DayOfYear(y, m, d) == DaysBefore(y, m) + d

\* lines 29-31 without the hhmmss length filter
FilterRowsNoTimeCheck(rows) ==
    SelectSeq(rows, LAMBDA r : r.anomaly # NaN /\ r.lon # NaN /\ r.lat # NaN
                               /\ Len(r.yyyymmdd) = 8)

\* lines 29-31: dropna and the two shape filters
FilterRows(rows) ==
    SelectSeq(rows, LAMBDA r : r.anomaly # NaN /\ r.lon # NaN /\ r.lat # NaN
                               /\ Len(r.yyyymmdd) = 8 /\ Len(r.hhmmss) >= 4)

\* lines 38-41: the astype conversions raise on a field that is no number
NumericOk(r) ==
    r.track # BadNum /\ r.lon # BadNum /\ r.lat # BadNum /\ r.anomaly # BadNum

\* lines 42-49: the calendar columns of one row
CalendarColumns(r) ==
    LET hhmmss_str == zfill6(r.hhmmss) IN
    [year   |-> DigitsToInt(StrSlice(r.yyyymmdd, 0, 4)),
     month  |-> DigitsToInt(StrSlice(r.yyyymmdd, 4, 6)),
     day    |-> DigitsToInt(StrSlice(r.yyyymmdd, 6, 8)),
     hour   |-> DigitsToInt(StrSlice(hhmmss_str, 0, 2)),
     minute |-> DigitsToInt(StrSlice(hhmmss_str, 2, 4)),
     second |-> DigitsToInt(StrSlice(hhmmss_str, 4, 6))]

\* lines 37-54 raise for this frame
ParseFails(rows) ==
    \E i \in 1..Len(rows) :
        ~NumericOk(rows[i]) \/ ~ValidDateTime(CalendarColumns(rows[i]))

\* lines 38-54: the frame with its derived columns; dec_time is kept as the
\* whole seconds of the day, hour*3600 + minute*60 + second
ParsedRow(r) ==
    LET c == CalendarColumns(r) IN
    [track |-> r.track, yyyymmdd |-> r.yyyymmdd, hhmmss |-> r.hhmmss,
     lon |-> r.lon, lat |-> r.lat, anomaly |-> r.anomaly,
     year |-> c.year, month |-> c.month, day |-> c.day,
     hour |-> c.hour, minute |-> c.minute, second |-> c.second,
     doy |-> DayOfYear(c.year, c.month, c.day),
     dec_time |-> c.hour * 3600 + c.minute * 60 + c.second]

ParseRows(rows) == [i \in 1..Len(rows) |-> ParsedRow(rows[i])]

\* LSDConverter.haversine: thousandths of a km
haversine(lon1, lat1, lon2, lat2) ==
    HaversineTable[CoordIndex(lon1, lat1)][CoordIndex(lon2, lat2)]

\* the distance column with every leg measured from the first row
RECURSIVE DistanceFromFirst(_, _)
DistanceFromFirst(rows, i) ==
    IF i <= 1 THEN 0
    ELSE DistanceFromFirst(rows, i - 1)
         + haversine(rows[1].lon, rows[1].lat, rows[i].lon, rows[i].lat)

\* lines 56-60: distance_km of row i
RECURSIVE distance_km(_, _)
distance_km(rows, i) ==
    IF i <= 1 THEN 0
    ELSE distance_km(rows, i - 1)
         + haversine(rows[i - 1].lon, rows[i - 1].lat, rows[i].lon, rows[i].lat)

\* line 62
lon_west(x) == IF x > 180000 THEN x - 360000 ELSE x

\* lines 66-67: the formatted record.  doy_time (%12.7f) is the pair of its
\* integer part and its 7 decimals: seconds/86400 = seconds*3125/27 * 1e-7;
\* lon, lat in 1e-5 degrees, anomaly in hundredths, distance in hundredths
\* of a km.
FormatLsd(r, dist, ln) ==
    [track |-> r.track, line |-> ln, year |-> r.year,
     doy_time |-> <<r.doy, RoundDiv(r.dec_time * 3125, 27)>>,
     lon |-> lon_west(r.lon) * 100, lat |-> r.lat * 100,
     anomaly |-> r.anomaly, dist |-> RoundDiv(dist, 10)]

\* lines 56-70
EmitLsd(rows, ln) ==
    [i \in 1..Len(rows) |-> FormatLsd(rows[i], distance_km(rows, i), ln)]

\* convert_lla_to_lsd as a function of the file and the line number
convert_lla_to_lsd(rows, ln) ==
    LET f == FilterRows(rows) IN
    IF Len(f) < 2 THEN <<>>
    ELSE IF ParseFails(f) THEN <<>>
    ELSE EmitLsd(ParseRows(f), ln)

InitConv ==
    /\ cpc = "start"
    /\ lla \in LlaFiles
    /\ line_number \in 1..MaxFiles
    /\ cdf = <<>>
    /\ outcome = "none"
    /\ lsd_lines = <<>>
    /\ IdleSplit
    /\ IdleMerge
    /\ IdleLevel
    /\ IdleDriver

\* lines 29-35: the filters and the early return on fewer than 2 rows
FilterLla ==
    /\ cpc = "start"
    /\ cdf' = FilterRows(lla)
    /\ IF Len(cdf') < 2
       THEN cpc' = "done" /\ outcome' = "skipped"
       ELSE cpc' = "filtered" /\ outcome' = "none"
    /\ UNCHANGED <<lla, line_number, lsd_lines>>
    /\ UNCHANGED notConvVars

\* lines 37-54 and 72-74: the derived columns, or the except branch
ParseLla ==
    /\ cpc = "filtered"
    /\ IF ParseFails(cdf)
       THEN cpc' = "done" /\ outcome' = "failed" /\ cdf' = cdf
       ELSE cpc' = "parsed" /\ outcome' = "none" /\ cdf' = ParseRows(cdf)
    /\ UNCHANGED <<lla, line_number, lsd_lines>>
    /\ UNCHANGED notConvVars

\* lines 56-70: the distance column and the formatted lines
EmitLla ==
    /\ cpc = "parsed"
    /\ lsd_lines' = EmitLsd(cdf, line_number)
    /\ outcome' = "converted"
    /\ cpc' = "done"
    /\ UNCHANGED <<lla, line_number, cdf>>
    /\ UNCHANGED notConvVars

NextConv == FilterLla \/ ParseLla \/ EmitLla

SpecConv == InitConv /\ [][NextConv]_vars

(***************************************************************************)
(* Claims about convert_lla_to_lsd                                         *)
(***************************************************************************)
\* a row that passes both shape checks and has no missing field
ShapeOk(r) ==
    /\ r.lon # NaN /\ r.lat # NaN /\ r.anomaly # NaN
    /\ Len(r.yyyymmdd) = 8
    /\ Len(r.hhmmss) >= 4

\* hour, minute and second of a time field read with zeros added on the left
LeftPaddedTime(h) ==
    LET n == Len(h)
        d(k) == IF k - (6 - n) >= 1 THEN h[k - (6 - n)] ELSE 0
    IN  [hour |-> 10 * d(1) + d(2), minute |-> 10 * d(3) + d(4),
         second |-> 10 * d(5) + d(6)]

\* hour, minute and second of a time field read with zeros added on the right
RightPaddedTime(h) ==
    LET d(k) == IF k <= Len(h) THEN h[k] ELSE 0
    IN  [hour |-> 10 * d(1) + d(2), minute |-> 10 * d(3) + d(4),
         second |-> 10 * d(5) + d(6)]

\* a row whose every field parses: shape, numbers, and a real date and time
RowValid(r) ==
    /\ ShapeOk(r)
    /\ r.track # BadNum /\ r.lon # BadNum /\ r.lat # BadNum /\ r.anomaly # BadNum
    /\ LET t == LeftPaddedTime(r.hhmmss)
           y == DigitsToInt(SubSeq(r.yyyymmdd, 1, 4))
           m == DigitsToInt(SubSeq(r.yyyymmdd, 5, 6))
           dd == DigitsToInt(SubSeq(r.yyyymmdd, 7, 8))
       IN  /\ m \in 1..12 /\ dd \in 1..DaysInMonth(y, m)
           /\ t.hour < 24 /\ t.minute < 60 /\ t.second < 60

\* the returned lines are exactly the given rows, one line each, in order
LinesAreRows(lines, rows, ln) ==
    /\ Len(lines) = Len(rows)
    /\ \A i \in 1..Len(rows) :
          /\ lines[i].line = ln
          /\ lines[i].track = rows[i].track
          /\ lines[i].anomaly = rows[i].anomaly
          /\ lines[i].lon = rows[i].lon * 100
          /\ lines[i].lat = rows[i].lat * 100

C10_TimePaddedRight ==
    (cpc = "parsed" \/ outcome = "converted") =>
        \A i \in 1..Len(cdf) :
            LET t == RightPaddedTime(cdf[i].hhmmss) IN
            /\ cdf[i].hour = t.hour
            /\ cdf[i].minute = t.minute
            /\ cdf[i].second = t.second

\* C10 (amended): a 4- or 5-character hhmmss is padded with zeros on the
\* left, so a 4-character field is hour 00 with its first two characters as
\* the minute and its last two as the second ("1234" is 00:12:34); 6
\* characters are HHMMSS; the written doy_time is the day of the year plus
\* that time of day.
C10_TimePaddedLeft ==
    (cpc = "parsed" \/ outcome = "converted") =>
        \A i \in 1..Len(cdf) :
            LET h == cdf[i].hhmmss
                t == LeftPaddedTime(h)
            IN  /\ cdf[i].hour = t.hour
                /\ cdf[i].minute = t.minute
                /\ cdf[i].second = t.second
                /\ Len(h) = 4 =>
                      /\ cdf[i].hour = 0
                      /\ cdf[i].minute = 10 * h[1] + h[2]
                      /\ cdf[i].second = 10 * h[3] + h[4]
                /\ outcome = "converted" =>
                      lsd_lines[i].doy_time =
                          << cdf[i].doy,
                             RoundDiv((t.hour * 3600 + t.minute * 60 + t.second)
                                      * 3125, 27) >>

\* C10 witness: a converted file with a 4-character, a 5-character and a
\* 6-character time
C10_Witness ==
    /\ outcome = "converted"
    /\ \A n \in {4, 5, 6} : \E i \in 1..Len(cdf) : Len(cdf[i].hhmmss) = n

(***************************************************************************)
(* LSDConverter.convert_all_lla_to_lsd_and_merge                           *)
(*                                                                         *)
(* A file name is a number standing for its place in the lexicographic     *)
(* order of names; the directory holds at most MaxFiles of the names       *)
(* 1..MaxFiles+1.                                                          *)
(***************************************************************************)
FileNames == 1..(MaxFiles + 1)

\* the contents an .lla file of a merged directory can have
MergeFiles ==
    { <<>>,
      <<RowHMS6>>,
      <<RowHMS6, RowHMS4>>,
      <<RowHMS6, RowHMS4, RowHMS5>>,
      <<RowHMS5, RowHMS6, RowHMS4>>,
      <<RowHMS4, RowHMS3, RowHMS6>>,
      <<RowHMS6, RowHMS4, RowBadLon>>,
      <<RowHMS4, RowHMS4, RowHMS4>> }

LlaDirs ==
    UNION { [S -> MergeFiles] :
              S \in {T \in SUBSET FileNames : Cardinality(T) <= MaxFiles} }

\* the names in descending order, one of the orders glob can yield them in
RECURSIVE Descending(_)
Descending(S) ==
    IF S = {} THEN <<>>
    ELSE LET m == CHOOSE x \in S : \A y \in S : y <= x
         IN  <<m>> \o Descending(S \ {m})

\* line 77: sorted(...)
RECURSIVE sorted(_)
sorted(S) ==
    IF S = {} THEN <<>>
    ELSE LET m == CHOOSE x \in S : \A y \in S : x <= y
         IN  <<m>> \o sorted(S \ {m})

InitMerge ==
    /\ mpc = "start"
    /\ lla_dir \in LlaDirs
    /\ lla_files = <<>>
    /\ mi = 0
    /\ all_lines = <<>>
    /\ mapping = <<>>
    /\ output_lsd = <<>>
    /\ mapping_csv = <<>>
    /\ IdleSplit
    /\ IdleConv
    /\ IdleLevel
    /\ IdleDriver

\* lines 77-79
ListLla ==
    /\ mpc = "start"
    /\ lla_files' = sorted(DOMAIN lla_dir)
    /\ all_lines' = <<>>
    /\ mapping' = <<>>
    /\ mi' = 1
    /\ mpc' = "loop"
    /\ UNCHANGED <<lla_dir, output_lsd, mapping_csv>>
    /\ UNCHANGED notMergeVars

\* lines 81-85: one iteration of the loop over enumerate(lla_files, start=1)
MergeFile ==
    /\ mpc = "loop"
    /\ mi <= Len(lla_files)
    /\ LET file == lla_files[mi]
           lines == convert_lla_to_lsd(lla_dir[file], mi)
       IN  /\ all_lines' = all_lines \o lines
           /\ mapping' = Append(mapping, [line_number |-> mi, filename |-> file])
    /\ mi' = mi + 1
    /\ UNCHANGED <<mpc, lla_dir, lla_files, output_lsd, mapping_csv>>
    /\ UNCHANGED notMergeVars

\* lines 87-94: the loop is exhausted, both files are written
WriteMerged ==
    /\ mpc = "loop"
    /\ mi > Len(lla_files)
    /\ output_lsd' = all_lines
    /\ mapping_csv' = [k \in 1..Len(mapping) |->
                          [line_number |-> IntToDigits(mapping[k].line_number),
                           filename |-> mapping[k].filename]]
    /\ mpc' = "done"
    /\ UNCHANGED <<lla_dir, lla_files, mi, all_lines, mapping>>
    /\ UNCHANGED notMergeVars

NextMerge == ListLla \/ MergeFile \/ WriteMerged

SpecMerge == InitMerge /\ [][NextMerge]_vars

(***************************************************************************)
(* Claims about convert_all_lla_to_lsd_and_merge                           *)
(***************************************************************************)
\* the file name with exactly i-1 smaller names in the directory
NameAt(i) ==
    CHOOSE f \in DOMAIN lla_dir :
        Cardinality({g \in DOMAIN lla_dir : g < f}) = i - 1

\* the lines of the merged output that carry line number i
LinesOf(i) == SelectSeq(output_lsd, LAMBDA l : l.line = i)

\* C4: with N input files, the mapping written has exactly N rows, row i
\* reads back as (i, the i-th file name in sorted order), so the numbers are 1..N without
\* repeats also for skipped and failed files; every merged record carries a
\* number in 1..N, the records are in ascending line-number order, and the
\* records numbered i are the records of the i-th file, in their order.
C4_LineNumbersFollowSortedNames ==
    mpc = "done" =>
        LET N == Cardinality(DOMAIN lla_dir) IN
        /\ Len(mapping_csv) = N
        /\ \A i \in 1..N :
              /\ DigitsToInt(mapping_csv[i].line_number) = i
              /\ mapping_csv[i].filename = NameAt(i)
        /\ \A j \in 1..Len(output_lsd) : output_lsd[j].line \in 1..N
        /\ \A j \in 1..(Len(output_lsd) - 1) :
              output_lsd[j].line <= output_lsd[j + 1].line
        /\ \A i \in 1..N :
              LET shaped == SelectSeq(lla_dir[NameAt(i)], ShapeOk) IN
              IF Len(shaped) >= 2 /\ \A k \in 1..Len(shaped) : RowValid(shaped[k])
              THEN LinesAreRows(LinesOf(i), shaped, i)
              ELSE LinesOf(i) = <<>>

\* C4 witness: a finished merge of two files not named 1 and 2, the first
\* of which yields no record while the second does
C4_Witness ==
    /\ mpc = "done"
    /\ DOMAIN lla_dir = {2, 3}
    /\ Len(mapping_csv) = 2
    /\ LinesOf(1) = <<>>
    /\ lla_dir[2] # <<>>
    /\ Len(LinesOf(2)) = 3

\* the first record of the run of equal line numbers that record j is in
RECURSIVE BlockStart(_)
BlockStart(j) ==
    IF j = 1 \/ output_lsd[j - 1].line # output_lsd[j].line
    THEN j ELSE BlockStart(j - 1)

\* the metres along the written positions from record a to record b
RECURSIVE PathLength(_, _)
PathLength(a, b) ==
    IF b <= a THEN 0
    ELSE PathLength(a, b - 1)
         + haversine(output_lsd[b - 1].lon \div 100, output_lsd[b - 1].lat \div 100,
                     output_lsd[b].lon \div 100, output_lsd[b].lat \div 100)

\* C5: in the merged output the cumulative distance is 0 at the first record
\* of every line number; at every later record of the line it is the
\* (rounded) sum of the great-circle legs between consecutive records of the
\* line up to it, in input order (each leg runs from the previous record to
\* the current one); it never decreases within a line.
C5_CumulativeDistance ==
    mpc = "done" =>
        \A j \in 1..Len(output_lsd) :
            /\ BlockStart(j) = j => output_lsd[j].dist = 0
            /\ output_lsd[j].dist = RoundDiv(PathLength(BlockStart(j), j), 10)
            /\ BlockStart(j) # j => output_lsd[j].dist >= output_lsd[j - 1].dist

\* C5 witness: a merged output of two lines of three records each, the
\* second line starting again at 0 after a positive distance
C5_Witness ==
    /\ mpc = "done"
    /\ Len(output_lsd) = 6
    /\ output_lsd[3].line = 1 /\ output_lsd[3].dist > output_lsd[2].dist
    /\ output_lsd[2].dist > 0
    /\ output_lsd[4].line = 2 /\ output_lsd[4].dist = 0
    /\ output_lsd[6].dist > 0

(***************************************************************************)
(* LWTCorrector.run and run_iterative                                      *)
(*                                                                         *)
(* offset and mag2 of an observation are in 1e-4, its weight in 1e-5.  A   *)
(* group mean is the exact fraction [num |-> sum, den |-> count].          *)
(***************************************************************************)
\* the records a merged .lsd file of the model can hold: lines 1 and 2 of
\* cruise 7 can have observations, line 3 never has
LsdRecords ==
    { [cruise |-> 7, line |-> 1, year |-> 2024, doy_time |-> <<61, 5242593>>,
       lon |-> 1000000, lat |-> 0, mag |-> 1234, dist |-> 0],
      [cruise |-> 7, line |-> 2, year |-> 2024, doy_time |-> <<61, 87269>>,
       lon |-> 1000100, lat |-> 0, mag |-> -567, dist |-> 11],
      [cruise |-> 7, line |-> 3, year |-> 2023, doy_time |-> <<365, 3959491>>,
       lon |-> 1010000, lat |-> 4500, mag |-> 250, dist |-> 1112] }

\* the observations an .lwt file of the model can hold
LwtRecords ==
    { [id |-> 1, cruise |-> 7, line |-> 1, offset |-> 0, doy1 |-> 61,
       line2 |-> 2, no2 |-> 1, doy2 |-> 61, mag2 |-> 3002, weight |-> 100000],
      [id |-> 2, cruise |-> 7, line |-> 1, offset |-> 15000, doy1 |-> 61,
       line2 |-> 2, no2 |-> 2, doy2 |-> 62, mag2 |-> -1001, weight |-> 50000],
      [id |-> 3, cruise |-> 7, line |-> 2, offset |-> 0, doy1 |-> 61,
       line2 |-> 1, no2 |-> 1, doy2 |-> 61, mag2 |-> 12345, weight |-> 25000] }

LsdFiles == UNION { [1..n -> LsdRecords] : n \in 0..MaxLsd }

LwtFiles == UNION { [1..n -> LwtRecords] : n \in 0..MaxObs }

\* the tolerances of the model, in 1e-4 (the default tol is 1e-4)
Tols == {0, 1}

Key(r) == <<r.cruise, r.line>>

RECURSIVE SumField(_, _)
SumField(rows, field) ==
    IF rows = <<>> THEN 0 ELSE rows[1][field] + SumField(Tail(rows), field)

\* lwt.groupby(["cruise", "line"])[field].mean().to_dict()
GroupMean(obs, field) ==
    [k \in {Key(obs[i]) : i \in 1..Len(obs)} |->
        LET g == SelectSeq(obs, LAMBDA o : Key(o) = k)
        IN  [num |-> SumField(g, field), den |-> Len(g)]]

Zero == [num |-> 0, den |-> 1]

\* dict.get(key, d) with another default than 0.0
MapGetDefaultOne(m, key) ==
    IF key \in DOMAIN m THEN m[key] ELSE [num |-> 10000, den |-> 1]

\* lines 61-62, 90, 101-102: dict.get(key, 0.0)
MapGet(m, key) == IF key \in DOMAIN m THEN m[key] ELSE Zero

\* a - b and |a| of fractions, a < t for an integer t
FracSub(a, b) == [num |-> a.num * b.den - b.num * a.den, den |-> a.den * b.den]

FracAdd(a, b) == [num |-> a.num * b.den + b.num * a.den, den |-> a.den * b.den]

FracAbs(a) == [num |-> Abs(a.num), den |-> a.den]

\* line 92 with <= in place of <
FracLessOrEqual(a, t) == a.num <= t * a.den

\* line 92: total_change < tol
FracLess(a, t) == a.num < t * a.den

\* line 90: sum(abs(updates.get(key, 0.0) - offset_map.get(key, 0.0))
\*              for key in offset_map)
RECURSIVE TotalChange(_, _, _)
TotalChange(updates, omap, keys) ==
    IF keys = {} THEN Zero
    ELSE LET k == CHOOSE x \in keys : TRUE
         IN  FracAdd(FracAbs(FracSub(MapGet(updates, k), MapGet(omap, k))),
                     TotalChange(updates, omap, keys \ {k}))

\* an update that adds the new value to the old one
MapUpdateAccumulate(m, u) ==
    [k \in DOMAIN m \cup DOMAIN u |->
        IF k \notin DOMAIN u THEN m[k]
        ELSE IF k \in DOMAIN m THEN FracAdd(m[k], u[k]) ELSE u[k]]

\* lines 94, 96: offset_map.update(updates.to_dict())
MapUpdate(m, u) ==
    [k \in DOMAIN m \cup DOMAIN u |-> IF k \in DOMAIN u THEN u[k] ELSE m[k]]

\* line 63 with the offset subtracted
CorrectedMagMinus(mag, offset) ==
    [num |-> mag * 100 * offset.den - offset.num, den |-> offset.den]

\* lines 63, 103: corrected_mag = row["mag"] + offset, in 1e-4
CorrectedMag(mag, offset) ==
    [num |-> mag * 100 * offset.den + offset.num, den |-> offset.den]

\* lines 65-67, 104-106: the written line.  The fields are those of the
\* format string: cruise, year and int(doy_time) in one token, the constant
\* 000000, lon and lat (%.5f), mag and the corrected value (%8.2f, in
\* hundredths), offset (%8.4f, in 1e-4), weight (%10.5f, in 1e-5).
ResultLine(row, omap, wmap) ==
    LET offset == MapGet(omap, Key(row))
        weight == MapGet(wmap, Key(row))
        corrected_mag == CorrectedMag(row.mag, offset)
    IN  [cruise |-> row.cruise,
         datetime |-> <<row.year, row.doy_time[1]>>,
         dummy |-> 0,
         lon |-> row.lon, lat |-> row.lat, mag |-> row.mag,
         corr_mag |-> RoundDiv(corrected_mag.num, 100 * corrected_mag.den),
         offset |-> RoundDiv(offset.num, offset.den),
         weight |-> RoundDiv(weight.num, weight.den)]

\* lines 58-68, 98-107
Results(rows, omap, wmap) ==
    [i \in 1..Len(rows) |-> ResultLine(rows[i], omap, wmap)]

InitLevel ==
    /\ lpc = "start"
    /\ lsd \in LsdFiles
    /\ lwt \in LwtFiles
    /\ \/ method = "run" /\ max_iter = 0 /\ tol = 0
       \/ method = "run_iterative" /\ max_iter \in 1..MaxIter /\ tol \in Tols
    /\ offset_map = NoFiles
    /\ weight_map = NoFiles
    /\ iter_i = 0
    /\ results = <<>>
    /\ IdleSplit
    /\ IdleConv
    /\ IdleMerge
    /\ IdleDriver

\* run, lines 49-56; run_iterative, lines 80-86
GroupObservations ==
    /\ lpc = "start"
    /\ offset_map' = GroupMean(lwt, "mag2")
    /\ weight_map' = GroupMean(lwt, "weight")
    /\ lpc' = IF method = "run" THEN "write" ELSE "loop"
    /\ UNCHANGED <<method, lsd, lwt, max_iter, tol, iter_i, results>>
    /\ UNCHANGED notLevelVars

\* run_iterative, lines 88-96: one iteration of the loop
Iterate ==
    /\ lpc = "loop"
    /\ method = "run_iterative"
    /\ iter_i < max_iter
    /\ LET updates == GroupMean(lwt, "mag2")
           total_change == TotalChange(updates, offset_map, DOMAIN offset_map)
       IN  /\ offset_map' = MapUpdate(offset_map, updates)
           /\ lpc' = IF FracLess(total_change, tol) \/ iter_i + 1 >= max_iter
                     THEN "write" ELSE "loop"
    /\ iter_i' = iter_i + 1
    /\ UNCHANGED <<method, lsd, lwt, max_iter, tol, weight_map, results>>
    /\ UNCHANGED notLevelVars

\* run, lines 58-72; run_iterative, lines 98-112
WriteResults ==
    /\ lpc = "write"
    /\ results' = Results(lsd, offset_map, weight_map)
    /\ lpc' = "done"
    /\ UNCHANGED <<method, lsd, lwt, max_iter, tol, offset_map, weight_map,
                   iter_i>>
    /\ UNCHANGED notLevelVars

NextLevel == GroupObservations \/ Iterate \/ WriteResults

SpecLevel == InitLevel /\ [][NextLevel]_vars

(***************************************************************************)
(* Claims about LWTCorrector.run and run_iterative                         *)
(***************************************************************************)
\* the observations of the .lwt file with the key of line record i
ObservationsOf(i) == SelectSeq(lwt, LAMBDA o : Key(o) = Key(lsd[i]))

\* C6: for every record whose key has observations, the written offset is
\* the mean of the offset field of these observations and the written weight
\* the mean of their weight field, the corrected anomaly is the anomaly plus
\* that mean; so when every such offset field is 0 the corrected anomaly is
\* the anomaly.
C6_OffsetIsMeanOfOffsetField ==
    lpc = "done" =>
        \A i \in 1..Len(lsd) :
            LET g == ObservationsOf(i)
                n == Len(g)
            IN  n > 0 =>
                  /\ results[i].offset = RoundDiv(SumField(g, "offset"), n)
                  /\ results[i].weight = RoundDiv(SumField(g, "weight"), n)
                  /\ results[i].corr_mag =
                        RoundDiv(lsd[i].mag * 100 * n + SumField(g, "offset"),
                                 100 * n)
                  /\ (\A k \in 1..n : g[k].offset = 0 /\ g[k].weight # 0) =>
                        results[i].corr_mag = lsd[i].mag

\* C7: the call finishes with one record per line record, and every record
\* whose key has no observation is written with offset 0, weight 0 and a
\* corrected anomaly equal to its anomaly.
C7_UnmatchedPassThrough ==
    lpc = "done" =>
        /\ Len(results) = Len(lsd)
        /\ \A i \in 1..Len(lsd) :
              ObservationsOf(i) = <<>> =>
                  /\ results[i].offset = 0
                  /\ results[i].weight = 0
                  /\ results[i].mag = lsd[i].mag
                  /\ results[i].corr_mag = lsd[i].mag

\* C7 witness: a finished call with a matched record whose offset is not 0
\* next to an unmatched one
C7_Witness ==
    /\ lpc = "done"
    /\ Len(lsd) = 2
    /\ ObservationsOf(1) # <<>> /\ results[1].offset # 0
    /\ ObservationsOf(2) = <<>>

\* C8 (as stated): one output record per line record, in order, each with
\* all eight fields of its line record unchanged, followed by
\* corrected_anomaly = anomaly + offset, offset and weight.
C8_AllLineFieldsCarried ==
    (lpc = "done" /\ method = "run") =>
        /\ Len(results) = Len(lsd)
        /\ \A i \in 1..Len(lsd) :
              /\ \A f \in {"cruise", "line", "year", "doy_time", "lon", "lat",
                           "mag", "dist"} :
                    f \in DOMAIN results[i] /\ results[i][f] = lsd[i][f]
              /\ results[i].corr_mag * 100 = lsd[i].mag * 100 + results[i].offset

\* C8 (amended): one output record per line record, in order; each carries
\* the cruise id, the year, the integer part of doy_time, longitude,
\* latitude and anomaly of its line record, the constant 000000, and then
\* corrected_anomaly = anomaly + offset (the group mean, rounded to 2
\* decimals), offset (4 decimals) and weight; line_number, the fraction of
\* doy_time and the cumulative distance are not written.
C8_WrittenFieldsCarried ==
    (lpc = "done" /\ method = "run") =>
        /\ Len(results) = Len(lsd)
        /\ \A i \in 1..Len(lsd) :
              LET o == MapGet(offset_map, Key(lsd[i])) IN
              /\ DOMAIN results[i] = {"cruise", "datetime", "dummy", "lon", "lat",
                                      "mag", "corr_mag", "offset", "weight"}
              /\ results[i].cruise = lsd[i].cruise
              /\ results[i].datetime = <<lsd[i].year, lsd[i].doy_time[1]>>
              /\ results[i].dummy = 0
              /\ results[i].lon = lsd[i].lon
              /\ results[i].lat = lsd[i].lat
              /\ results[i].mag = lsd[i].mag
              /\ results[i].corr_mag =
                    RoundDiv(lsd[i].mag * 100 * o.den + o.num, 100 * o.den)
              /\ results[i].offset = RoundDiv(o.num, o.den)

\* C8 witness: a finished run of two line records in an order that is not
\* the order of their line numbers, the first with a non-zero offset
C8_Witness ==
    /\ lpc = "done"
    /\ method = "run"
    /\ Len(lsd) = 2
    /\ lsd[1].line > lsd[2].line
    /\ results[1].offset # 0
    /\ results[1].corr_mag # results[1].mag

\* the loop of run_iterative has been left
LoopLeft == method = "run_iterative" /\ lpc \in {"write", "done"}

\* C11 (as stated): the loop never runs more than max_iter iterations and,
\* for any tol, stops early so that it runs at most 2 iterations.
C11_AtMostTwoIterations ==
    LoopLeft => iter_i <= max_iter /\ iter_i <= 2

\* an upper bound on the statements the call has left to run
StepsLeft ==
    CASE lpc = "start" -> max_iter + 3
      [] lpc = "loop" -> max_iter - iter_i + 2
      [] lpc = "write" -> 1
      [] OTHER -> 0

\* the iterations run_iterative has run, by tolerance
IterationCount ==
    /\ method = "run_iterative" /\ lpc # "start" =>
          /\ iter_i <= max_iter
          /\ offset_map = GroupMean(lwt, "mag2")
    /\ LoopLeft =>
          /\ tol > 0 => iter_i = 1
          /\ tol <= 0 => iter_i = max_iter
    /\ lpc = "done" => Len(results) = Len(lsd)

\* C11 (amended): every iteration finds the group means of the unchanged
\* observation set in the map; with tol > 0 the loop stops in its first
\* iteration, with tol <= 0 it never stops early and runs exactly max_iter
\* iterations; it never runs more than max_iter iterations.  The call always
\* goes on to write one corrected record per line record: until it has,
\* a statement can run, and every statement leaves fewer to run.
C11_IterationsByTolerance ==
    /\ IterationCount
    /\ [][lwt' = lwt /\ IterationCount' /\ StepsLeft' < StepsLeft]_vars
    /\ [](lpc # "done" => ENABLED NextLevel)

\* C11 witness: a finished call over observations with tol = 0 that ran
\* three iterations
C11_Witness ==
    /\ lpc = "done"
    /\ method = "run_iterative"
    /\ lwt # <<>>
    /\ tol = 0
    /\ max_iter > 2
    /\ iter_i = max_iter


\* what the single-pass run writes for a line file and an observation set
SinglePassResults(rows, obs) ==
    Results(rows, GroupMean(obs, "mag2"), GroupMean(obs, "weight"))

\* C14: for the same line file and observation set, and every max_iter >= 1
\* and tol, run_iterative writes the records the single-pass run writes: the
\* loop leaves the offset map at its initial group means and never touches
\* the weight map.
C14_IterativeEqualsSinglePass ==
    /\ lpc = "done" => results = SinglePassResults(lsd, lwt)
    /\ lpc \in {"loop", "write", "done"} =>
          /\ offset_map = GroupMean(lwt, "mag2")
          /\ weight_map = GroupMean(lwt, "weight")

\* C14 witness: a finished run_iterative of several iterations whose first
\* record has a non-zero offset and weight
C14_Witness ==
    /\ lpc = "done"
    /\ method = "run_iterative"
    /\ iter_i >= 2
    /\ Len(lsd) = 2
    /\ results[1].offset # 0
    /\ results[1].weight # 0
    /\ results[1].corr_mag # lsd[1].mag

(***************************************************************************)
(* TRKSplitter: split called for every .trk file of input_dir, in sorted   *)
(* order.  A split call is one step here; its loop is the one SpecSplit    *)
(* runs step by step.  File names are numbers, in their sorted order.      *)
(***************************************************************************)
\* row i of a .trk file, at point k of Coords
TrkRow(i, k) ==
    [unixtime |-> 100 * (i - 1) + 5, lon |-> Coords[k].lon,
     lat |-> Coords[k].lat, mag |-> 10000 + 100 * (i - 1) + 4 * k]

\* the contents a .trk file of input_dir can have: no rows; a row whose
\* last column is not a number; a row with a missing column before a full
\* one; two and three full rows
TrkFiles ==
    { <<>>,
      << [TrkRow(1, 1) EXCEPT !.mag = BadNum] >>,
      << [TrkRow(1, 1) EXCEPT !.mag = NaN], TrkRow(2, 3) >>,
      << TrkRow(1, 1), TrkRow(2, 3) >>,
      << TrkRow(1, 1), TrkRow(2, 2), TrkRow(3, 4) >> }

TrkDirs ==
    UNION { [S -> TrkFiles] :
              S \in {T \in SUBSET FileNames : Cardinality(T) <= MaxFiles} }

\* a read that takes every token for a number
ReadNeverFails(rows) == FALSE

\* lines 52-62: read_csv(dtype=float) raises on a token that is not a
\* number, and split raises RuntimeError from it
ReadFails(rows) == \E i \in 1..Len(rows) : rows[i].mag = BadNum

\* line 66: fp.parent; line 81: fp.parent / f"splittedTRK_{tag}"
Parent == [kind |-> "parent", tag |-> 0]

Tagged(t) == [kind |-> "splittedTRK", tag |-> t]

NoOutput == [main_tracks |-> NoFiles, skipped_tracks |-> NoFiles]

\* lines 92-110: the files the loop writes for rows d and boundaries b from
\* position i on, added to the files out
RECURSIVE SaveSegments(_, _, _, _, _)
SaveSegments(d, b, i, minlen, out) ==
    IF i >= Len(b) THEN out
    ELSE LET seg == Slice(d, b[i], b[i + 1])
             is_main == IsMain(_segment_length(seg), minlen)
             id == i - 1
             put(dir) == [k \in DOMAIN dir \cup {id} |->
                            IF k = id THEN FormatTrk(seg) ELSE dir[k]]
         IN  SaveSegments(d, b, i + 1, minlen,
                 IF is_main THEN [out EXCEPT !.main_tracks = put(@)]
                 ELSE [out EXCEPT !.skipped_tracks = put(@)])

\* Path.write_text into a directory: a file of the same name is replaced
Overwrite(old, new) ==
    [k \in DOMAIN old \cup DOMAIN new |->
        IF k \in DOMAIN new THEN new[k] ELSE old[k]]

\* lines 84-85, 99-105, 113: mkdir(exist_ok=True) keeps a folder that is
\* there, then the segment files and <stem>.html are written into it
WriteFolder(t, wrote, stem) ==
    LET old == IF t \in DOMAIN tree
               THEN tree[t]
               ELSE [main_tracks |-> NoFiles, skipped_tracks |-> NoFiles,
                     html |-> {}]
    IN  [main_tracks |-> Overwrite(old.main_tracks, wrote.main_tracks),
         skipped_tracks |-> Overwrite(old.skipped_tracks, wrote.skipped_tracks),
         html |-> old.html \cup {stem}]

InitDriver ==
    /\ dpc = "start"
    /\ trk_dir \in TrkDirs
    /\ min_distance \in MinLengths
    /\ trk_files = <<>>
    /\ ti = 0
    /\ clock = 0
    /\ tree = NoFiles
    /\ base_dir = None
    /\ split_log = <<>>
    /\ error = ""
    /\ IdleSplit
    /\ IdleConv
    /\ IdleMerge
    /\ IdleLevel

\* lines 125-129
ListTrk ==
    /\ dpc = "start"
    /\ trk_files' = sorted(DOMAIN trk_dir)
    /\ ti' = 1
    /\ base_dir' = None
    /\ dpc' = "loop"
    /\ UNCHANGED <<trk_dir, min_distance, clock, tree, split_log, error>>
    /\ UNCHANGED notDriverVars

\* line 130, split lines 52-62: the file cannot be read; nothing catches the
\* RuntimeError, it leaves TRKSplitter
SplitRaises ==
    /\ dpc = "loop"
    /\ ti <= Len(trk_files)
    /\ ReadFails(trk_dir[trk_files[ti]])
    /\ dpc' = "raised"
    /\ error' = "Failed to read"
    /\ UNCHANGED <<trk_dir, min_distance, trk_files, ti, clock, tree, base_dir,
                   split_log>>
    /\ UNCHANGED notDriverVars

\* line 130, split lines 52-66: no usable row, split returns fp.parent
SplitEmpty ==
    /\ dpc = "loop"
    /\ ti <= Len(trk_files)
    /\ ~ReadFails(trk_dir[trk_files[ti]])
    /\ dropna(trk_dir[trk_files[ti]]) = <<>>
    /\ base_dir' = Parent
    /\ ti' = ti + 1
    /\ UNCHANGED <<dpc, trk_dir, min_distance, trk_files, clock, tree,
                   split_log, error>>
    /\ UNCHANGED notDriverVars

\* line 130, split lines 52-116: the clock read at line 80 shows the second
\* of the previous reading or a later one
SplitTrack ==
    /\ dpc = "loop"
    /\ ti <= Len(trk_files)
    /\ LET fp == trk_files[ti]
           d == dropna(trk_dir[fp])
       IN  /\ ~ReadFails(trk_dir[fp])
           /\ d # <<>>
           /\ \E m \in [1..Len(d) -> BOOLEAN], tag \in {clock, clock + 1} :
                 /\ \E i \in 1..Len(d) : m[i]
                 /\ LET wrote == SaveSegments(d, Boundaries(m, Len(d)), 1,
                                              min_distance, NoOutput)
                    IN  /\ tree' = [t \in DOMAIN tree \cup {tag} |->
                                      IF t = tag THEN WriteFolder(tag, wrote, fp)
                                      ELSE tree[t]]
                        /\ split_log' = Append(split_log,
                               [trk |-> fp, base_dir |-> Tagged(tag),
                                main_tracks |-> wrote.main_tracks,
                                skipped_tracks |-> wrote.skipped_tracks])
                 /\ clock' = tag
                 /\ base_dir' = Tagged(tag)
    /\ ti' = ti + 1
    /\ UNCHANGED <<dpc, trk_dir, min_distance, trk_files, error>>
    /\ UNCHANGED notDriverVars

\* lines 132-135: the loop is exhausted
FinishDriver ==
    /\ dpc = "loop"
    /\ ti > Len(trk_files)
    /\ IF base_dir = None
       THEN dpc' = "raised" /\ error' = "No .trk files were found for splitting."
       ELSE dpc' = "returned" /\ error' = error
    /\ UNCHANGED <<trk_dir, min_distance, trk_files, ti, clock, tree, base_dir,
                   split_log>>
    /\ UNCHANGED notDriverVars

NextDriver == ListTrk \/ SplitRaises \/ SplitEmpty \/ SplitTrack \/ FinishDriver

SpecDriver == InitDriver /\ [][NextDriver]_vars

(***************************************************************************)
(* Claims about TRKSplitter                                                *)
(***************************************************************************)
\* the files call c of split_log wrote are in its folder as it wrote them
StillAsWritten(c, sub) ==
    \A k \in DOMAIN c[sub] :
        LET folder == tree[c.base_dir.tag][sub]
        IN  k \in DOMAIN folder /\ folder[k] = c[sub][k]

\* C12: in one run, the split calls that write files write into locations
\* that differ from call to call, however little time passes between them,
\* and every segment file a call wrote stays as that call wrote it.
C12_FreshLocationPerInput ==
    /\ \A i, j \in 1..Len(split_log) :
          i # j => split_log[i].base_dir # split_log[j].base_dir
    /\ \A i \in 1..Len(split_log) :
          /\ StillAsWritten(split_log[i], "main_tracks")
          /\ StillAsWritten(split_log[i], "skipped_tracks")

\* TRKSplitter is over: it returned or a RuntimeError left it
DriverOver == dpc \in {"returned", "raised"}

\* file i of the sorted batch has a column that is not a number
NotNumeric(i) ==
    \E k \in 1..Len(trk_dir[trk_files[i]]) :
        trk_dir[trk_files[i]][k].mag = BadNum

\* file i of the sorted batch is numeric and has a row without missing value
HasUsableRows(i) ==
    /\ ~NotNumeric(i)
    /\ \E k \in 1..Len(trk_dir[trk_files[i]]) :
          trk_dir[trk_files[i]][k].mag # NaN

\* the names of the files whose segments were written, in the order written
Segmented == [c \in 1..Len(split_log) |-> split_log[c].trk]

\* the names of the files among the first n of the batch that have usable
\* rows, in sorted order
RECURSIVE UsableUpTo(_)
UsableUpTo(n) ==
    IF n = 0 THEN <<>>
    ELSE UsableUpTo(n - 1)
         \o (IF HasUsableRows(n) THEN <<trk_files[n]>> ELSE <<>>)

\* C13 (as stated): when the driver is over, every file of the batch that
\* can be parsed and has usable rows has been segmented, whatever files
\* around it cannot be parsed, and the driver has failed only if the
\* directory holds no .trk file.
C13_UnparsableFileSkipped ==
    DriverOver =>
        /\ Segmented = UsableUpTo(Len(trk_files))
        /\ dpc = "raised" <=> trk_files = <<>>

\* C13 (amended): the driver stops with RuntimeError "Failed to read" at the
\* first file, in sorted order, that cannot be parsed as four numeric
\* columns: the files sorted before it are segmented, the file and all files
\* after it are not.  Without such a file every file with usable rows is
\* segmented, and the driver fails only if no .trk file was found.
C13_FirstUnparsableFileAborts ==
    DriverOver =>
        LET n == Len(trk_files)
            bad == {i \in 1..n : NotNumeric(i)}
            stop == IF bad = {} THEN n
                    ELSE (CHOOSE i \in bad : \A j \in bad : i <= j) - 1
        IN  /\ Segmented = UsableUpTo(stop)
            /\ bad # {} <=> dpc = "raised" /\ error = "Failed to read"
            /\ n = 0 <=> /\ dpc = "raised"
                         /\ error = "No .trk files were found for splitting."
            /\ dpc = "returned" => base_dir # None

\* C13 witness: a batch of two files, the first not numeric, the second with
\* usable rows: the driver has failed at the first and the second is not
\* segmented
C13_Witness ==
    /\ dpc = "raised"
    /\ error = "Failed to read"
    /\ Len(trk_files) = 2
    /\ NotNumeric(1)
    /\ HasUsableRows(2)
    /\ split_log = <<>>
    /\ tree = NoFiles

====
